---- MODULE Spec2Model ----
(***************************************************************************)
(* Model of stopes/modules/speech/postprocess.py: PostProcessAudioModule.  *)
(* run() = load_file ; postprocess ; save_results ; outlier statistics.    *)
(* Scores are integers (tenths), max_overlap is a rational num/den, and    *)
(* the retention statistics are computed in exact rational arithmetic.     *)
(***************************************************************************)
EXTENDS Integers, Sequences, FiniteSets, TLC

VARIABLES input, config, pc, src_attr, file_lines, passing_filters,
          sources, valid_audio, filtering_stats, compared, output,
          below_sigs, total_src_time, err

vars == <<input, config, pc, src_attr, file_lines, passing_filters,
          sources, valid_audio, filtering_stats, compared, output,
          below_sigs, total_src_time, err>>

\* ------------------------------------------------------------------ bounds
MaxLines == 3
NPaths == 11

\* ------------------------------------------------------------- arithmetic
Min(a, b) == IF a < b THEN a ELSE b

Max(a, b) == IF a > b THEN a ELSE b

RECURSIVE GCD(_, _)
GCD(a, b) == IF b = 0 THEN a ELSE GCD(b, a % b)

LCM(a, b) == (a * b) \div GCD(a, b)

RECURSIVE SeqSum(_)
SeqSum(s) == IF Len(s) = 0 THEN 0 ELSE s[1] + SeqSum(Tail(s))

RECURSIVE SeqLCM(_)
SeqLCM(s) == IF Len(s) = 0 THEN 1 ELSE LCM(s[1], SeqLCM(Tail(s)))

RECURSIVE Flatten(_)
Flatten(ss) == IF Len(ss) = 0 THEN <<>> ELSE ss[1] \o Flatten(Tail(ss))

\* ------------------------------------------------------- items and lines
\* A raw item of an input line: an audio span in raw units, or a text.
RawAudio(p, s, l) == [kind |-> "audio", path |-> p, start |-> s, len |-> l]

RawText == [kind |-> "text"]

RawLine(s, t, sc) == [src |-> s, tgt |-> t, score |-> sc]

\* Optional[int]: <<>> is None, <<k>> is k.
NoSamplingFactor == <<>>

\* utils.Audio / utils.Text as built by split_mining_line: with a sampling
\* factor the raw sample counts are rescaled to milliseconds.
parse_item(raw, sampling_factor) ==
    IF raw.kind = "audio"
    THEN IF sampling_factor = NoSamplingFactor
         THEN [kind |-> "audio", path |-> raw.path,
               start |-> raw.start, duration |-> raw.len]
         ELSE [kind |-> "audio", path |-> raw.path,
               start |-> raw.start \div sampling_factor[1],
               duration |-> raw.len \div sampling_factor[1]]
    ELSE [kind |-> "text"]

\* utils.split_mining_line(line, sampling_factor=None); id is the identity
\* of the MiningLineResult object (the number of the line it was read from).
split_mining_line(i, line, sampling_factor) ==
    [id |-> i,
     src |-> parse_item(line.src, sampling_factor),
     tgt |-> parse_item(line.tgt, sampling_factor),
     score |-> line.score]

\* isinstance(x, Audio)
IsAudio(item) == item.kind = "audio"

\* utils.compute_overlap, fraction method: intersection over a reference
\* length (the first span's, or the shorter span's); 0 when that is 0.
compute_overlap(segment1, segment2, method) ==
    LET end1 == segment1.start + segment1.duration
        end2 == segment2.start + segment2.duration
        inter == Max(0, Min(end1, end2) - Max(segment1.start, segment2.start))
        ref == IF method = "first" THEN segment1.duration
               ELSE Min(segment1.duration, segment2.duration)
    IN IF ref = 0 THEN [num |-> 0, den |-> 1] ELSE [num |-> inter, den |-> ref]

\* overlap > self.config.max_overlap, on rationals
OverlapExceeds(overlap, max_overlap) ==
    overlap.num * max_overlap.den > max_overlap.num * overlap.den

\* --------------------------------------------------------------- module
NoError == [type |-> "None", line |-> 0]

\* getattr(mining_result, self.src_attr)
load_input(mining_result, attr) ==
    IF attr = "src" THEN mining_result.src ELSE mining_result.tgt

\* which_object_audio: "src", "tgt", or "raise" for the ValueError
which_object_audio(src, tgt) ==
    IF IsAudio(src) THEN "src"
    ELSE IF IsAudio(tgt) THEN "tgt"
    ELSE "raise"

line_passes_thresholds_ge(line, attr, cfg) ==
    /\ line.score >= cfg.mining_threshold
    /\ load_input(line, attr).duration >= cfg.min_audio_length

line_passes_thresholds(line, attr, cfg) ==
    /\ line.score > cfg.mining_threshold
    /\ load_input(line, attr).duration > cfg.min_audio_length

\* sources[path].append(mining_result) / sources[path] = [mining_result];
\* a dict is a sequence of entries in insertion order.
RECURSIVE DictAppend(_, _, _)
DictAppend(dict, path, mining_result) ==
    IF Len(dict) = 0
    THEN <<[path |-> path, lines |-> <<mining_result>>]>>
    ELSE IF dict[1].path = path
         THEN <<[path |-> path, lines |-> Append(dict[1].lines, mining_result)]>>
              \o Tail(dict)
         ELSE <<dict[1]>> \o DictAppend(Tail(dict), path, mining_result)

\* the while loop of load_file, from line i on
RECURSIVE load_loop(_, _, _, _, _, _, _)
load_loop(i, inp, attr, cfg, srcs, flines, passing) ==
    IF i > Len(inp)
    THEN [err |-> NoError, sources |-> srcs,
          file_lines |-> flines, passing_filters |-> passing]
    ELSE LET mining_result == split_mining_line(i, inp[i], NoSamplingFactor)
             item == load_input(mining_result, attr)
         IN IF ~IsAudio(item)
            THEN \* a Text has no attribute path
                 [err |-> [type |-> "AttributeError", line |-> i],
                  sources |-> <<>>, file_lines |-> flines + 1,
                  passing_filters |-> passing]
            ELSE IF line_passes_thresholds(mining_result, attr, cfg)
                 THEN load_loop(i + 1, inp, attr, cfg,
                                DictAppend(srcs, item.path, mining_result),
                                flines + 1, passing + 1)
                 ELSE load_loop(i + 1, inp, attr, cfg, srcs, flines + 1, passing)

load_file(inp, cfg, flines0) ==
    IF Len(inp) = 0
    THEN [err |-> [type |-> "ValueError", line |-> 0], attr |-> "src",
          sources |-> <<>>, file_lines |-> flines0, passing_filters |-> 0]
    ELSE LET first == split_mining_line(1, inp[1], cfg.sampling_factor)
             attr == which_object_audio(first.src, first.tgt)
         IN IF attr = "raise"
            THEN [err |-> [type |-> "ValueError", line |-> 1], attr |-> "src",
                  sources |-> <<>>, file_lines |-> flines0 + 1,
                  passing_filters |-> 0]
            ELSE [attr |-> attr]
                 @@ load_loop(1, inp, attr, cfg, <<>>, flines0 + 1, 0)

\* sorted(line_list, key=start): stable
RECURSIVE InsertByStart(_, _, _)
InsertByStart(sorted, x, attr) ==
    IF Len(sorted) = 0 THEN <<x>>
    ELSE IF load_input(sorted[1], attr).start <= load_input(x, attr).start
         THEN <<sorted[1]>> \o InsertByStart(Tail(sorted), x, attr)
         ELSE <<x>> \o sorted

unsorted(line_list, attr) == line_list

RECURSIVE sorted_by_start(_, _)
sorted_by_start(line_list, attr) ==
    IF Len(line_list) = 0 THEN <<>>
    ELSE InsertByStart(sorted_by_start(SubSeq(line_list, 1, Len(line_list) - 1), attr),
                       line_list[Len(line_list)], attr)

score_lower_or_equal(last, line) == last.score <= line.score

\* kept_lines[-1].score < line.score
score_lower(last, line) == last.score < line.score

kept_step_append(kept, line, attr, cfg) == Append(kept, line)

\* one iteration of "for line in line_list"
kept_step(kept, line, attr, cfg) ==
    IF Len(kept) = 0
    THEN Append(kept, line)
    ELSE LET last == kept[Len(kept)]
             overlap == compute_overlap(load_input(last, attr),
                                        load_input(line, attr),
                                        cfg.overlap_method)
         IN IF OverlapExceeds(overlap, cfg.max_overlap)
            THEN IF score_lower(last, line)
                 THEN [kept EXCEPT ![Len(kept)] = line]
                 ELSE kept
            ELSE Append(kept, line)

\* the scan: kept_lines, and the pairs handed to compute_overlap
RECURSIVE scan(_, _, _, _, _)
scan(line_list, kept, cmp, attr, cfg) ==
    IF Len(line_list) = 0
    THEN [kept |-> kept, compared |-> cmp]
    ELSE LET line == line_list[1]
             cmp2 == IF Len(kept) = 0 THEN cmp
                     ELSE cmp \cup {<<kept[Len(kept)].id, line.id>>}
         IN scan(Tail(line_list), kept_step(kept, line, attr, cfg), cmp2, attr, cfg)

stats_entry_swapped(path, line_list, kept) ==
    [path |-> path, starting_lines |-> Len(kept), kept_lines |-> Len(line_list)]

\* filtering_stats[path] = {...}
stats_entry(path, line_list, kept) ==
    [path |-> path, starting_lines |-> Len(line_list), kept_lines |-> Len(kept)]

\* the loop over sources.items()
RECURSIVE postprocess(_, _, _)
postprocess(srcs, attr, cfg) ==
    IF Len(srcs) = 0
    THEN [valid_audio |-> <<>>, filtering_stats |-> <<>>, compared |-> {}]
    ELSE LET line_list == sorted_by_start(srcs[1].lines, attr)
             res == scan(line_list, <<>>, {}, attr, cfg)
             rest == postprocess(Tail(srcs), attr, cfg)
         IN [valid_audio |-> res.kept \o rest.valid_audio,
             filtering_stats |-> <<stats_entry(srcs[1].path, line_list, res.kept)>>
                                 \o rest.filtering_stats,
             compared |-> res.compared \cup rest.compared]

\* print(str(score), str(src), str(tgt), sep="\t")
output_line(mining_result) ==
    <<mining_result.score, mining_result.src, mining_result.tgt>>

\* percentage_kept < avg - sigmas * std, exactly: with x_j = D * kept_j /
\* starting_j, S = sum x_j and n paths, path i is below iff
\* S - n x_i > 0 and sigmas^2 * sum_j (n x_j - S)^2 < n * (S - n x_i)^2.
sigmas == 3

below_indices(stats) ==
    LET n == Len(stats)
        D == SeqLCM([j \in 1..n |-> stats[j].starting_lines])
        x == [j \in 1..n |-> (D * stats[j].kept_lines) \div stats[j].starting_lines]
        S == SeqSum(x)
        Q == SeqSum([j \in 1..n |-> (n * x[j] - S) * (n * x[j] - S)])
    IN {i \in 1..n : /\ S - n * x[i] > 0
                     /\ sigmas * sigmas * Q < n * (S - n * x[i]) * (S - n * x[i])}

RECURSIVE SetToSortedSeq(_)
SetToSortedSeq(S) ==
    IF S = {} THEN <<>>
    ELSE LET m == CHOOSE m \in S : \A k \in S : m <= k
         IN <<m>> \o SetToSortedSeq(S \ {m})

\* np.argwhere(...).squeeze(): a single hit squeezes to a 0-d array, and
\* iterating a 0-d array raises TypeError
squeeze_iterable(idx) == Cardinality(idx) # 1

RECURSIVE total_duration(_, _)
total_duration(lines, attr) ==
    IF Len(lines) = 0 THEN 0
    ELSE load_input(lines[1], attr).duration + total_duration(Tail(lines), attr)

\* ----------------------------------------------------------------- inputs
MaxOverlapDefault == [num |-> 1, den |-> 5]

Config(thr, minlen, method, sf) ==
    [mining_threshold |-> thr, min_audio_length |-> minlen,
     max_overlap |-> MaxOverlapDefault, overlap_method |-> method,
     sampling_factor |-> sf]

SeqsUpTo(S, n) == UNION {[1..k -> S] : k \in 0..n}

\* audio/text streams on two paths, with ties in start, nested spans and
\* disjoint spans
DedupSpans == {<<0, 5>>, <<3, 1>>, <<3, 2>>, <<0, 1>>}

DedupLines ==
    {RawLine(RawAudio(1, sp[1], sp[2]), RawText, sc) : sp \in DedupSpans, sc \in {1, 2}}
    \cup {RawLine(RawAudio(2, sp[1], sp[2]), RawText, sc) :
             sp \in {<<0, 1>>, <<3, 1>>}, sc \in {1, 2}}

ExampleInput ==
    <<RawLine(RawAudio(1, 0, 20), RawText, 5),
      RawLine(RawAudio(1, 5, 5), RawText, 9),
      RawLine(RawAudio(1, 12, 6), RawText, 8)>>

\* a record kept, a later one barely overlapping it, and a short one inside
\* both that replaces the later one
FlankInput ==
    <<RawLine(RawAudio(1, 0, 5), RawText, 1),
      RawLine(RawAudio(1, 4, 5), RawText, 1),
      RawLine(RawAudio(1, 4, 1), RawText, 2)>>

DedupInputs == SeqsUpTo(DedupLines, MaxLines) \cup {ExampleInput, FlankInput}

DedupConfigs ==
    {Config(thr, 0, m, NoSamplingFactor) : thr \in {0, 1}, m \in {"first", "shorter"}}

\* streams mixing audio and text items, durations at and above the minimum
LoadLines ==
    {RawLine(s, t, sc) :
        s \in {RawAudio(1, 0, 2), RawAudio(1, 0, 4), RawText},
        t \in {RawText, RawAudio(2, 0, 4)},
        sc \in {1, 2}}

LoadInputs == SeqsUpTo(LoadLines, MaxLines)

LoadConfigs == {Config(1, 2, "first", sf) : sf \in {NoSamplingFactor, <<2>>}}

\* many audio files, each with one record or with two identical records
FileShape(p, two) ==
    IF two
    THEN <<RawLine(RawAudio(p, 0, 5), RawText, 2), RawLine(RawAudio(p, 0, 5), RawText, 2)>>
    ELSE <<RawLine(RawAudio(p, 0, 5), RawText, 2)>>

StatsInputs ==
    {Flatten([p \in 1..n |-> FileShape(p, f[p])]) :
        f \in [1..NPaths -> BOOLEAN], n \in {1, NPaths}}

StatsConfigs == {Config(1, 2, "first", NoSamplingFactor)}

\* ------------------------------------------------------------ state machine
InitWith(inputs, configs) ==
    /\ input \in inputs
    /\ config \in configs
    /\ pc = "start"
    /\ src_attr = "src"
    /\ file_lines = 0
    /\ passing_filters = 0
    /\ sources = <<>>
    /\ valid_audio = <<>>
    /\ filtering_stats = <<>>
    /\ compared = {}
    /\ output = <<>>
    /\ below_sigs = <<>>
    /\ total_src_time = 0
    /\ err = NoError

Init == InitWith(DedupInputs, DedupConfigs)

InitLoad == InitWith(LoadInputs, LoadConfigs)

InitStats == InitWith(StatsInputs, StatsConfigs)

LoadFile ==
    /\ pc = "start"
    /\ LET r == load_file(input, config, file_lines)
       IN /\ file_lines' = r.file_lines
          /\ passing_filters' = r.passing_filters
          /\ sources' = r.sources
          /\ src_attr' = r.attr
          /\ err' = r.err
          /\ pc' = IF r.err = NoError THEN "loaded" ELSE "error"
    /\ UNCHANGED <<input, config, valid_audio, filtering_stats, compared,
                   output, below_sigs, total_src_time>>

Postprocess ==
    /\ pc = "loaded"
    /\ LET r == postprocess(sources, src_attr, config)
       IN /\ valid_audio' = r.valid_audio
          /\ filtering_stats' = r.filtering_stats
          /\ compared' = r.compared
    /\ pc' = "postprocessed"
    /\ UNCHANGED <<input, config, src_attr, file_lines, passing_filters,
                   sources, output, below_sigs, total_src_time, err>>

SaveResults ==
    /\ pc = "postprocessed"
    /\ output' = [i \in 1..Len(valid_audio) |-> output_line(valid_audio[i])]
    /\ pc' = "saved"
    /\ UNCHANGED <<input, config, src_attr, file_lines, passing_filters,
                   sources, valid_audio, filtering_stats, compared,
                   below_sigs, total_src_time, err>>

DetectOutliers ==
    /\ pc = "saved"
    /\ LET idx == below_indices(filtering_stats)
       IN IF squeeze_iterable(idx)
          THEN /\ below_sigs' = [k \in 1..Cardinality(idx) |->
                                    filtering_stats[SetToSortedSeq(idx)[k]].path]
               /\ err' = err
               /\ pc' = "stats"
          ELSE /\ below_sigs' = below_sigs
               /\ err' = [type |-> "TypeError", line |-> 0]
               /\ pc' = "error"
    /\ UNCHANGED <<input, config, src_attr, file_lines, passing_filters,
                   sources, valid_audio, filtering_stats, compared, output,
                   total_src_time>>

Finish ==
    /\ pc = "stats"
    /\ total_src_time' = total_duration(valid_audio, src_attr)
    /\ pc' = "done"
    /\ UNCHANGED <<input, config, src_attr, file_lines, passing_filters,
                   sources, valid_audio, filtering_stats, compared, output,
                   below_sigs, err>>

Next == LoadFile \/ Postprocess \/ SaveResults \/ DetectOutliers \/ Finish

Spec == Init /\ [][Next]_vars

SpecLoad == InitLoad /\ [][Next]_vars

SpecStats == InitStats /\ [][Next]_vars

\* ------------------------------------------------------------- properties
\* load_file has returned its groups
LoadDone == pc \notin {"start"} /\ err.type \notin {"ValueError", "AttributeError"}

\* postprocess has returned
PostDone == LoadDone /\ pc # "loaded"

Lines == 1..Len(input)

\* the raw item of line i that the run reads as the audio item
AudioOf(i) == IF src_attr = "src" THEN input[i].src ELSE input[i].tgt

\* the threshold policy as stated, on the raw line
Passes(i) ==
    /\ input[i].score > config.mining_threshold
    /\ AudioOf(i).len > config.min_audio_length

\* the number of places where line i sits in the group of path p
PlacesIn(i, p) ==
    Cardinality(UNION {{<<g, k>> : k \in {m \in 1..Len(sources[g].lines) :
                                             /\ sources[g].path = p
                                             /\ sources[g].lines[m].id = i}} :
                       g \in 1..Len(sources)})

GroupPaths == {sources[g].path : g \in 1..Len(sources)}

\* C1: a record is placed (once) in the group of its audio path iff its score
\* is strictly above mining_threshold and its duration strictly above
\* min_audio_length; a rejected record is in no group.
C1_ThresholdFilter ==
    LoadDone =>
        \A i \in Lines :
            /\ Passes(i) => PlacesIn(i, AudioOf(i).path) = 1
            /\ \A p \in GroupPaths :
                  (~Passes(i) \/ p # AudioOf(i).path) => PlacesIn(i, p) = 0

C1_Witness ==
    /\ LoadDone
    /\ \E i, j, k \in Lines :
          /\ input[i].score = config.mining_threshold
          /\ AudioOf(i).len > config.min_audio_length
          /\ \A p \in GroupPaths : PlacesIn(i, p) = 0
          /\ input[j].score > config.mining_threshold
          /\ AudioOf(j).len = config.min_audio_length
          /\ \A p \in GroupPaths : PlacesIn(j, p) = 0
          /\ PlacesIn(k, AudioOf(k).path) = 1
          /\ AudioOf(k).path = AudioOf(i).path

\* the kept records of path p, in the order of the returned list
KeptOf(p) == SelectSeq(valid_audio, LAMBDA r : load_input(r, src_attr).path = p)

StartOf(r) == load_input(r, src_attr).start

\* the stable ascending sort by start, stated on positions: the one
\* arrangement in which (start, original position) strictly increases
StablySorted(l) ==
    LET n == Len(l)
        perm == CHOOSE f \in [1..n -> 1..n] :
                   \A a, b \in 1..n :
                      a < b => \/ StartOf(l[f[a]]) < StartOf(l[f[b]])
                               \/ /\ StartOf(l[f[a]]) = StartOf(l[f[b]])
                                  /\ f[a] < f[b]
    IN [a \in 1..n |-> l[perm[a]]]

\* the scan as stated: the last record of l meets the result for the
\* records before it
RECURSIVE StatedScan(_)
StatedScan(l) ==
    IF Len(l) <= 1 THEN l
    ELSE LET before == StatedScan(SubSeq(l, 1, Len(l) - 1))
             r == l[Len(l)]
             last == before[Len(before)]
             ov == compute_overlap(load_input(last, src_attr),
                                   load_input(r, src_attr), config.overlap_method)
         IN IF ov.num * config.max_overlap.den > config.max_overlap.num * ov.den
            THEN IF last.score < r.score
                 THEN SubSeq(before, 1, Len(before) - 1) \o <<r>>
                 ELSE before
            ELSE before \o <<r>>

\* C2: each group's kept sequence is the stated scan of the group stably
\* sorted by start (compare with kept.last only; replace on strictly higher
\* score, else discard; append when overlap <= max_overlap); the example
\* starts [0,5,12], lengths [20,5,6], scores [0.5,0.9,0.8] keeps records 2, 3.
C2_ScanResult ==
    PostDone =>
        /\ \A g \in 1..Len(sources) :
              KeptOf(sources[g].path) = StatedScan(StablySorted(sources[g].lines))
        /\ input = ExampleInput =>
              /\ [k \in 1..Len(valid_audio) |-> valid_audio[k].id] = <<2, 3>>
              /\ filtering_stats = <<[path |-> 1, starting_lines |-> 3, kept_lines |-> 2]>>

\* a group with a tie in start, an equal-score conflict and a replacement
C2_Witness ==
    /\ PostDone
    /\ \E g \in 1..Len(sources) :
          LET l == sources[g].lines
          IN /\ Len(l) = 3
             /\ StartOf(l[1]) > StartOf(l[2])
             /\ StartOf(l[1]) = StartOf(l[3])
             /\ l[1].score = l[3].score
             /\ l[2].score < l[1].score
             /\ [k \in 1..Len(KeptOf(sources[g].path)) |->
                    KeptOf(sources[g].path)[k].id] = <<l[1].id>>

C2_ExampleWitness == PostDone /\ input = ExampleInput

Exceeds(a, b) ==
    OverlapExceeds(compute_overlap(load_input(a, src_attr), load_input(b, src_attr),
                                   config.overlap_method),
                   config.max_overlap)

SamePath(a, b) == load_input(a, src_attr).path = load_input(b, src_attr).path

\* C3: two records adjacent in a group's kept sequence overlap at most
\* max_overlap, or were never compared with each other during the scan.
C3_AdjacentWeak ==
    PostDone =>
        \A k \in 1..Len(valid_audio) - 1 :
            SamePath(valid_audio[k], valid_audio[k + 1]) =>
                \/ ~Exceeds(valid_audio[k], valid_audio[k + 1])
                \/ <<valid_audio[k].id, valid_audio[k + 1].id>> \notin compared

\* a record replaced kept.last after being compared with it alone: it now
\* sits next to an earlier kept record that it overlaps by more than
\* max_overlap and was never compared with
C3_Witness ==
    /\ PostDone
    /\ \E k \in 1..Len(valid_audio) - 1 :
          /\ SamePath(valid_audio[k], valid_audio[k + 1])
          /\ Exceeds(valid_audio[k], valid_audio[k + 1])
          /\ <<valid_audio[k].id, valid_audio[k + 1].id>> \notin compared
          /\ \E pr \in compared :
                /\ pr[2] = valid_audio[k + 1].id
                /\ \A m \in 1..Len(valid_audio) : valid_audio[m].id # pr[1]

\* C4: no two records kept for the same path overlap more than max_overlap.
C4_NoOverlapAnyPair ==
    PostDone =>
        \A k, m \in 1..Len(valid_audio) :
            (k < m /\ SamePath(valid_audio[k], valid_audio[m])) =>
                ~Exceeds(valid_audio[k], valid_audio[m])

PassingOfPath(p) == {i \in Lines : AudioOf(i).path = p /\ Passes(i)}

\* C5: for every path of the statistics, 1 <= kept_lines <= starting_lines
\* and starting_lines counts the path's records that passed the filter.
C5_StatsBounds ==
    PostDone =>
        \A g \in 1..Len(filtering_stats) :
            LET s == filtering_stats[g]
            IN /\ 1 <= s.kept_lines
               /\ s.kept_lines <= s.starting_lines
               /\ s.starting_lines = Cardinality(PassingOfPath(s.path))
               /\ s.kept_lines = Len(KeptOf(s.path))
               /\ s.starting_lines = 1 => s.kept_lines = 1

C5_Witness ==
    /\ PostDone
    /\ \E g, h \in 1..Len(filtering_stats) :
          /\ filtering_stats[g].starting_lines = 1
          /\ filtering_stats[h].starting_lines = 2
          /\ filtering_stats[h].kept_lines = 1

FirstObserved(p) ==
    CHOOSE i \in Lines : /\ AudioOf(i).path = p
                         /\ \A j \in Lines : AudioOf(j).path = p => i <= j

FirstPassing(p) ==
    CHOOSE i \in PassingOfPath(p) : \A j \in PassingOfPath(p) : i <= j

PathOf(r) == load_input(r, src_attr).path

\* C6 as stated: the returned list is the groups' kept sequences one after
\* the other, groups in the order their path was first observed in the input
\* stream, each group in non-decreasing start order.
C6_OrderFirstObserved ==
    PostDone =>
        /\ Len(valid_audio) =
              SeqSum([g \in 1..Len(filtering_stats) |-> filtering_stats[g].kept_lines])
        /\ \A k, m \in 1..Len(valid_audio) :
              k < m =>
                 IF SamePath(valid_audio[k], valid_audio[m])
                 THEN StartOf(valid_audio[k]) <= StartOf(valid_audio[m])
                 ELSE FirstObserved(PathOf(valid_audio[k]))
                         < FirstObserved(PathOf(valid_audio[m]))

\* C6 amended: groups in the order in which their path's first record
\* passing the threshold filter was read.
C6_OrderFirstPassing ==
    PostDone =>
        /\ Len(valid_audio) =
              SeqSum([g \in 1..Len(filtering_stats) |-> filtering_stats[g].kept_lines])
        /\ \A k, m \in 1..Len(valid_audio) :
              k < m =>
                 IF SamePath(valid_audio[k], valid_audio[m])
                 THEN StartOf(valid_audio[k]) <= StartOf(valid_audio[m])
                 ELSE FirstPassing(PathOf(valid_audio[k]))
                         < FirstPassing(PathOf(valid_audio[m]))

\* two groups returned in an order that is not the order in which their
\* paths first appear in the input: the first line of the input was rejected
C6_Witness ==
    /\ PostDone
    /\ Len(sources) = 2
    /\ FirstObserved(sources[2].path) < FirstObserved(sources[1].path)
    /\ Len(valid_audio) = 2
    /\ PathOf(valid_audio[1]) = sources[1].path
    /\ PathOf(valid_audio[2]) = sources[2].path

NeitherAudio(i) == input[i].src.kind # "audio" /\ input[i].tgt.kind # "audio"

\* C7: a record, first or later, with no audio item makes load_file fail with
\* the validation error naming that line; nothing is grouped or saved.
C7_ValidationAnyLine ==
    LET bad == {i \in Lines : NeitherAudio(i)}
    IN (bad # {} /\ pc # "start") =>
          /\ pc = "error"
          /\ err.type = "ValueError"
          /\ err.line \in bad
          /\ sources = <<>> /\ valid_audio = <<>> /\ output = <<>>

\* C8: the outlier step never raises and lists exactly the paths whose ratio
\* is below mean - 3 stddev, leaving records and statistics as they were.
C8_OutliersNeverFail ==
    /\ err.type # "TypeError"
    /\ pc \in {"stats", "done"} =>
          /\ {below_sigs[k] : k \in 1..Len(below_sigs)} =
                {filtering_stats[i].path : i \in below_indices(filtering_stats)}
          /\ Len(below_sigs) = Cardinality(below_indices(filtering_stats))

\* C9: with a sampling_factor, every record is filtered on its rescaled
\* duration and grouped with its rescaled start and duration.
C9_SamplingFactorEveryRecord ==
    (LoadDone /\ config.sampling_factor # NoSamplingFactor) =>
        \A i \in Lines :
            LET sf == config.sampling_factor[1]
                ok == /\ input[i].score > config.mining_threshold
                      /\ AudioOf(i).len \div sf > config.min_audio_length
            IN /\ ok <=> PlacesIn(i, AudioOf(i).path) = 1
               /\ \A g \in 1..Len(sources) : \A k \in 1..Len(sources[g].lines) :
                     sources[g].lines[k].id = i =>
                        load_input(sources[g].lines[k], src_attr).duration
                           = AudioOf(i).len \div sf

\* C10: after load_file on a non-empty input file_lines is the number of
\* input lines, and the records passing the filters are those of the groups.
C10_FileLinesCount ==
    (LoadDone /\ Len(input) > 0) =>
        /\ file_lines = Len(input)
        /\ passing_filters = SeqSum([g \in 1..Len(sources) |-> Len(sources[g].lines)])
        /\ PostDone =>
              passing_filters =
                 SeqSum([g \in 1..Len(filtering_stats) |->
                            filtering_stats[g].starting_lines])

====
